---- MODULE Spec2Model ----
(***************************************************************************)
(* tuplestructops: join, split and index of tuples.                        *)
(*                                                                         *)
(* The crate is a set of trait implementations produced by two macros,     *)
(* impl_tupleops! and tuple_impl!, swept over tuple arities with seq!.     *)
(* The model has two parts:                                                *)
(*   - the expansion of the macros, one step per macro rule applied, which *)
(*     builds the list of implementations the crate holds;                 *)
(*   - programs that call join, split and idx on tuples, resolved against  *)
(*     the implementations of the crate, with the bodies the macros wrote. *)
(*                                                                         *)
(* A type parameter T~J is the number J; a list of identifiers is a        *)
(* sequence of such numbers.                                               *)
(***************************************************************************)
EXTENDS Integers, Sequences, FiniteSets, TLC

VARIABLES
    features,   \* cargo features enabled for the build
    inv,        \* index of the tuple_impl! invocation being expanded
    phase,      \* position inside the body of tuple_impl! for the current N
    N,          \* seq!(N in $low..=$high)
    left,       \* impl_tupleops!(@recur $left ; ...)
    pending,    \* impl_tupleops!(@recur ... ; $first $rest)
    I,          \* seq!(I in 0..N)
    emitted,    \* the items (trait implementations) expanded so far
    locals,     \* the tuples a program holds, with their ownership
    res,        \* the result of the program's last call
    rpc         \* the program's position

genVars == <<inv, phase, N, left, pending, I, emitted>>
runVars == <<locals, res, rpc>>
vars == <<features, inv, phase, N, left, pending, I, emitted, locals, res, rpc>>

Range(s) == {s[k] : k \in DOMAIN s}

FeatureNames == {"tuple_24", "tuple_32"}

(***************************************************************************)
(* Items of the crate                                                      *)
(***************************************************************************)

\* One generated implementation: the trait, the borrow mode of Self, the
\* two identifier lists the macro rule was applied to, and the index.
Item(trait, mode, l, r, i) ==
    [trait |-> trait, mode |-> mode, left |-> l, right |-> r, idx |-> i]

NoIdx == 0 - 1

\* (#(T~J,)*) under seq!(J in 0..N)
Types(n) == [j \in 1..n |-> j - 1]

\* impl_tupleops!(@impl $left ; $right): the four implementations.
impl_tupleops_impl(l, r) ==
    << Item("TupleJoin", "value", l, r, NoIdx),
       Item("TupleJoin", "ref", l, r, NoIdx),
       Item("TupleSplit", "value", l, r, NoIdx),
       Item("TupleSplit", "ref", l, r, NoIdx) >>

\* Variant: the by-reference line repeats the by-value Self type.
sealed_impls_value_only(types) ==
    << Item("Sealed", "value", types, <<>>, NoIdx),
       Item("Sealed", "value", types, <<>>, NoIdx) >>

\* The two Sealed implementations of one arity.
sealed_impls(types) ==
    << Item("Sealed", "value", types, <<>>, NoIdx),
       Item("Sealed", "ref", types, <<>>, NoIdx) >>

\* Variant: the index counts from one.
idx_impls_from_one(types, i) ==
    << Item("TupleIdx", "value", types, <<>>, i + 1),
       Item("TupleIdx", "ref", types, <<>>, i + 1) >>

\* The body of seq!(I in 0..N) for one I: index by value, index by reference.
idx_impls(types, i) ==
    << Item("TupleIdx", "value", types, <<>>, i),
       Item("TupleIdx", "ref", types, <<>>, i) >>

\* The invocations of tuple_impl! with their cfg(any(...)) attributes; an
\* empty list of features is an invocation with no cfg attribute.
Invocations ==
    << [low |-> 0, high |-> 16, any |-> {}],
       [low |-> 17, high |-> 24, any |-> {"tuple_32", "tuple_24"}],
       [low |-> 25, high |-> 32, any |-> {"tuple_32"}] >>

CfgEnabled(invocation, fs) ==
    invocation.any = {} \/ invocation.any \cap fs # {}

\* The largest arity any enabled invocation sweeps.
MAX(fs) ==
    LET highs == {Invocations[k].high :
                    k \in {j \in DOMAIN Invocations : CfgEnabled(Invocations[j], fs)}}
    IN  CHOOSE h \in highs : \A g \in highs : g <= h

(***************************************************************************)
(* Expansion of the macros, as functions of their arguments                *)
(***************************************************************************)

RECURSIVE impl_tupleops_recur(_, _)

\* Variant: the rule for an empty right list expands to nothing.
impl_tupleops_recur_no_base(l, p) ==
    IF p = <<>>
        THEN <<>>
        ELSE impl_tupleops_impl(l, p)
                \o impl_tupleops_recur(Append(l, Head(p)), Tail(p))

\* impl_tupleops!(@recur $left ; $pending): the rule for an empty right list
\* and the rule that moves $first to the left list.
impl_tupleops_recur(l, p) ==
    IF p = <<>>
        THEN impl_tupleops_impl(l, <<>>)
        ELSE impl_tupleops_impl(l, p)
                \o impl_tupleops_recur(Append(l, Head(p)), Tail(p))

\* impl_tupleops!($types): the recursion starts with nothing on the left.
impl_tupleops(types) == impl_tupleops_recur(<<>>, types)

\* seq!(I in 0..N { .. }), from round i on.
RECURSIVE seq_I(_, _)
seq_I(types, i) ==
    IF i >= Len(types)
        THEN <<>>
        ELSE idx_impls(types, i) \o seq_I(types, i + 1)

\* The body of seq!(N in ..) for one N.
tuple_impl_body(n) ==
    sealed_impls(Types(n)) \o impl_tupleops(Types(n)) \o seq_I(Types(n), 0)

\* tuple_impl!($low, $high)
RECURSIVE tuple_impl(_, _)
tuple_impl(low, high) ==
    IF low > high
        THEN <<>>
        ELSE tuple_impl_body(low) \o tuple_impl(low + 1, high)

\* The items of the crate built with the features fs, from invocation k on.
RECURSIVE items_from(_, _)
items_from(k, fs) ==
    IF k > Len(Invocations)
        THEN <<>>
        ELSE (IF CfgEnabled(Invocations[k], fs)
                THEN tuple_impl(Invocations[k].low, Invocations[k].high)
                ELSE <<>>)
             \o items_from(k + 1, fs)

crate(fs) == items_from(1, fs)

(***************************************************************************)
(* Expansion of the macros, step by step                                   *)
(***************************************************************************)

Done == inv > Len(Invocations)

IdleRun ==
    /\ locals = <<>>
    /\ res = <<>>
    /\ rpc = "off"

InitGen ==
    /\ features \in SUBSET FeatureNames
    /\ inv = 1
    /\ phase = "item"
    /\ N = 0
    /\ left = <<>>
    /\ pending = <<>>
    /\ I = 0
    /\ emitted = <<>>
    /\ IdleRun

\* tuple_impl!($low, $high) whose cfg holds: seq!(N in $low..=$high) starts.
TupleImplInvoke ==
    /\ ~Done
    /\ phase = "item"
    /\ CfgEnabled(Invocations[inv], features)
    /\ N' = Invocations[inv].low
    /\ phase' = "seal"
    /\ UNCHANGED <<features, inv, left, pending, I, emitted>>
    /\ UNCHANGED runVars

\* tuple_impl!($low, $high) whose cfg does not hold is dropped.
TupleImplCfgOut ==
    /\ ~Done
    /\ phase = "item"
    /\ ~CfgEnabled(Invocations[inv], features)
    /\ inv' = inv + 1
    /\ UNCHANGED <<features, phase, N, left, pending, I, emitted>>
    /\ UNCHANGED runVars

\* The two Sealed implementations, then impl_tupleops!(#(T~J)*), whose last
\* rule starts the recursion with nothing on the left.
SealAndInvoke ==
    /\ phase = "seal"
    /\ emitted' = emitted \o sealed_impls(Types(N))
    /\ left' = <<>>
    /\ pending' = Types(N)
    /\ phase' = "recur"
    /\ UNCHANGED <<features, inv, N, I>>
    /\ UNCHANGED runVars

\* Variant: the recursion moves the last pending position instead of the first.
RecurStep_last ==
    /\ phase = "recur"
    /\ pending # <<>>
    /\ emitted' = emitted \o impl_tupleops_impl(left, pending)
    /\ left' = Append(left, pending[Len(pending)])
    /\ pending' = SubSeq(pending, 1, Len(pending) - 1)
    /\ UNCHANGED <<features, inv, phase, N, I>>
    /\ UNCHANGED runVars

\* (@recur $left ; $first $rest): @impl for this partition, then recur with
\* $first moved to the end of the left list.
RecurStep ==
    /\ phase = "recur"
    /\ pending # <<>>
    /\ emitted' = emitted \o impl_tupleops_impl(left, pending)
    /\ left' = Append(left, Head(pending))
    /\ pending' = Tail(pending)
    /\ UNCHANGED <<features, inv, phase, N, I>>
    /\ UNCHANGED runVars

\* Variant: the rule for an empty right list emits nothing.
RecurBase_silent ==
    /\ phase = "recur"
    /\ pending = <<>>
    /\ phase' = "idx"
    /\ I' = 0
    /\ UNCHANGED <<features, inv, N, left, pending, emitted>>
    /\ UNCHANGED runVars

\* (@recur $left ; ): @impl with an empty right list; the recursion ends and
\* seq!(I in 0..N) starts.
RecurBase ==
    /\ phase = "recur"
    /\ pending = <<>>
    /\ emitted' = emitted \o impl_tupleops_impl(left, <<>>)
    /\ phase' = "idx"
    /\ I' = 0
    /\ UNCHANGED <<features, inv, N, left, pending>>
    /\ UNCHANGED runVars

\* One round of seq!(I in 0..N).
IdxStep ==
    /\ phase = "idx"
    /\ I < N
    /\ emitted' = emitted \o idx_impls(Types(N), I)
    /\ I' = I + 1
    /\ UNCHANGED <<features, inv, phase, N, left, pending>>
    /\ UNCHANGED runVars

\* The next round of seq!(N in $low..=$high).
NextArity ==
    /\ phase = "idx"
    /\ I = N
    /\ N < Invocations[inv].high
    /\ N' = N + 1
    /\ phase' = "seal"
    /\ UNCHANGED <<features, inv, left, pending, I, emitted>>
    /\ UNCHANGED runVars

\* seq!(N in $low..=$high) is exhausted: the invocation is expanded.
TupleImplEnd ==
    /\ phase = "idx"
    /\ I = N
    /\ N = Invocations[inv].high
    /\ inv' = inv + 1
    /\ phase' = "item"
    /\ UNCHANGED <<features, N, left, pending, I, emitted>>
    /\ UNCHANGED runVars

NextGen ==
    \/ TupleImplInvoke
    \/ TupleImplCfgOut
    \/ SealAndInvoke
    \/ RecurStep
    \/ RecurBase
    \/ IdxStep
    \/ NextArity
    \/ TupleImplEnd

SpecGen == InitGen /\ [][NextGen]_vars

(***************************************************************************)
(* Programs calling the generated implementations                          *)
(***************************************************************************)

NumValues == 2
SmallArity == 1

Values == 0 .. (NumValues - 1)

\* seq!(I in 0..n { (#(I,)*) }): the tuple (0, 1, ..., n-1) of the boundary test.
Iota(n) == [k \in 1..n |-> k - 1]

\* The arities the boundary test joins (8, 12, 16) and the ends of the sweeps.
BoundaryArities ==
    {8, 12, 16} \cup {Invocations[k].high : k \in DOMAIN Invocations}

\* The tuples a program is built with.
Inputs ==
    UNION {[1..n -> Values] : n \in 0..SmallArity}
        \cup {Iota(n) : n \in BoundaryArities}

Owned(v) == [val |-> v, live |-> TRUE]

NoCall == <<>>

\* `let ($pattern,)* = value`: each identifier bound to the component at its
\* position.
Bind(pattern, value) ==
    [x \in Range(pattern) |->
        value[CHOOSE k \in DOMAIN pattern : pattern[k] = x]]

\* ($($ids,)*) evaluated in an environment.
Build(ids, env) == [k \in DOMAIN ids |-> env[ids[k]]]

\* What `let (..) = self` sees: the tuple's components when self is the
\* tuple, a reference to each field when self is a reference to the local
\* `arg` (a reference is the pair <<local, field>>).
Destructure(mode, arg, ls) ==
    IF mode = "value"
        THEN arg
        ELSE [k \in 1..Len(ls[arg].val) |-> <<arg, k>>]

\* Variant: the result lists $right before $left.
join_swapped(im, self, other) ==
    LET env == Bind(im.right, other) @@ Bind(im.left, self)
    IN  Build(im.right \o im.left, env)

\* fn join(self, other): bind $left to self, $right to other (the second
\* `let` shadows the first), return ($left,* $right,*).
join(im, self, other) ==
    LET env == Bind(im.right, other) @@ Bind(im.left, self)
    IN  Build(im.left \o im.right, env)

\* Variant: the two halves are returned in the wrong order.
split_swapped(im, self) ==
    LET env == Bind(im.left \o im.right, self)
    IN  << Build(im.right, env), Build(im.left, env) >>

\* Variant: the suffix repeats the prefix.
split_suffix_all(im, self) ==
    LET env == Bind(im.left \o im.right, self)
    IN  << Build(im.left, env), Build(im.left \o im.right, env) >>

\* fn split(self): bind ($left,* $right,*) to self, return the two tuples.
split(im, self) ==
    LET env == Bind(im.left \o im.right, self)
    IN  << Build(im.left, env), Build(im.right, env) >>

\* Variant: the body returns the first component whatever I is.
idx_first(im, self) == Bind(im.left, self)[im.left[1]]

\* fn idx(self): bind (#(T~J,)*) to self, return T~I.
idx(im, self) == Bind(im.left, self)[im.idx]

\* const INDEX: usize = I
INDEX(im) == im.idx

\* Variant: a borrowed tuple is moved out of its local as well.
Pass_moves(mode, used, ls) ==
    [v \in DOMAIN ls |->
        IF v \in used THEN [ls[v] EXCEPT !.live = FALSE] ELSE ls[v]]

\* The locals after a call took the locals `used` as arguments: a tuple
\* passed by value is moved out of its local, a borrowed one stays.
Pass(mode, used, ls) ==
    IF mode = "value"
        THEN [v \in DOMAIN ls |->
                IF v \in used THEN [ls[v] EXCEPT !.live = FALSE] ELSE ls[v]]
        ELSE ls

\* The implementations the compiler finds for a call, by the shapes of Self
\* and of the trait's parameters.
ResolveJoin(mode, a, b) ==
    {k \in DOMAIN emitted :
        /\ emitted[k].trait = "TupleJoin"
        /\ emitted[k].mode = mode
        /\ Len(emitted[k].left) = a
        /\ Len(emitted[k].right) = b}

ResolveSplit(mode, n, l, r) ==
    {k \in DOMAIN emitted :
        /\ emitted[k].trait = "TupleSplit"
        /\ emitted[k].mode = mode
        /\ Len(emitted[k].left) = l
        /\ Len(emitted[k].right) = r
        /\ Len(emitted[k].left \o emitted[k].right) = n}

ResolveIdx(mode, n, i) ==
    {k \in DOMAIN emitted :
        /\ emitted[k].trait = "TupleIdx"
        /\ emitted[k].mode = mode
        /\ emitted[k].idx = i
        /\ Len(emitted[k].left) = n}

Modes == {"value", "ref"}

Arg(mode, v) == IF mode = "value" THEN locals[v].val ELSE v

\* The shapes a caller asks of a split of an n-tuple: every partition of n,
\* and shapes one component too long or too short at either end.
SplitShapes(n) ==
    {<<l, n - l>> : l \in 0..n}
        \cup {<<0, n + 1>>, <<n + 1, 0>>, <<n, 1>>}
        \cup {<<l, n - 1 - l>> : l \in {0, n - 1} \cap (0..n)}

\* A program over a small tuple goes on calling while the tuple is its own;
\* a program over a boundary tuple makes one call.
CanCall ==
    /\ locals.t.live
    /\ res = NoCall \/ Len(locals.t.val) <= SmallArity

\* The crate is built; the program binds its first tuple.
Main ==
    /\ Done
    /\ rpc = "off"
    /\ \E t \in Inputs : locals' = [v \in {"t"} |-> Owned(t)]
    /\ res' = NoCall
    /\ rpc' = "t"
    /\ UNCHANGED features
    /\ UNCHANGED genVars

\* The program binds a second tuple before it calls anything.
LetU ==
    /\ rpc = "t"
    /\ res = NoCall
    /\ \E u \in Inputs :
         locals' = [v \in {"t", "u"} |-> IF v = "t" THEN locals.t ELSE Owned(u)]
    /\ rpc' = "tu"
    /\ UNCHANGED <<features, res>>
    /\ UNCHANGED genVars

\* t.join(u) or (&t).join(&u); with no implementation the build fails.
JoinCall(mode) ==
    /\ rpc = "tu"
    /\ locals.t.live /\ locals.u.live
    /\ LET found == ResolveJoin(mode, Len(locals.t.val), Len(locals.u.val))
           call == [op |-> "join", mode |-> mode]
       IN  \/ /\ found = {}
              /\ res' = call @@ [ok |-> FALSE]
              /\ rpc' = "error"
              /\ UNCHANGED locals
           \/ \E k \in found :
              /\ res' = call @@
                    [ok |-> TRUE,
                     out |-> join(emitted[k],
                                  Destructure(mode, Arg(mode, "t"), locals),
                                  Destructure(mode, Arg(mode, "u"), locals))]
              /\ locals' = Pass(mode, {"t", "u"}, locals)
              /\ UNCHANGED rpc
    /\ UNCHANGED features
    /\ UNCHANGED genVars

\* let (prefix, suffix): (L, R) = t.split() or (&t).split(), for the shapes
\* L and R of arities l and r the caller names.
SplitCall(mode, l, r) ==
    /\ rpc = "t"
    /\ CanCall
    /\ LET found == ResolveSplit(mode, Len(locals.t.val), l, r)
           call == [op |-> "split", mode |-> mode, l |-> l, r |-> r]
       IN  \/ /\ found = {}
              /\ res' = call @@ [ok |-> FALSE]
              /\ rpc' = "error"
              /\ UNCHANGED locals
           \/ \E k \in found :
              /\ res' = call @@
                    [ok |-> TRUE,
                     out |-> split(emitted[k],
                                   Destructure(mode, Arg(mode, "t"), locals))]
              /\ locals' = Pass(mode, {"t"}, locals)
              /\ UNCHANGED rpc
    /\ UNCHANGED features
    /\ UNCHANGED genVars

\* prefix.join(suffix) on the two tuples the last split returned.
Rejoin ==
    /\ rpc = "t"
    /\ res # NoCall
    /\ res.op = "split"
    /\ LET found == ResolveJoin("value", Len(res.out[1]), Len(res.out[2]))
           call == [op |-> "rejoin", mode |-> "value", of |-> res.mode, l |-> res.l]
       IN  \/ /\ found = {}
              /\ res' = call @@ [ok |-> FALSE]
              /\ rpc' = "error"
           \/ \E k \in found :
              /\ res' = call @@
                    [ok |-> TRUE, out |-> join(emitted[k], res.out[1], res.out[2])]
              /\ UNCHANGED rpc
    /\ UNCHANGED <<features, locals>>
    /\ UNCHANGED genVars

\* TupleIdx::<i>::idx(t) or TupleIdx::<i>::idx(&t).
IdxCall(mode, i) ==
    /\ rpc = "t"
    /\ CanCall
    /\ LET found == ResolveIdx(mode, Len(locals.t.val), i)
           call == [op |-> "idx", mode |-> mode, i |-> i]
       IN  \/ /\ found = {}
              /\ res' = call @@ [ok |-> FALSE]
              /\ rpc' = "error"
              /\ UNCHANGED locals
           \/ \E k \in found :
              /\ res' = call @@
                    [ok |-> TRUE,
                     out |-> idx(emitted[k],
                                 Destructure(mode, Arg(mode, "t"), locals)),
                     index |-> INDEX(emitted[k])]
              /\ locals' = Pass(mode, {"t"}, locals)
              /\ UNCHANGED rpc
    /\ UNCHANGED features
    /\ UNCHANGED genVars

NextRun ==
    \/ Main
    \/ LetU
    \/ \E mode \in Modes : JoinCall(mode)
    \/ /\ rpc = "t"
       /\ CanCall
       /\ \E mode \in Modes :
            \E s \in SplitShapes(Len(locals.t.val)) : SplitCall(mode, s[1], s[2])
    \/ Rejoin
    \/ /\ rpc = "t"
       /\ CanCall
       /\ \E mode \in Modes :
            \E i \in 0..Len(locals.t.val) : IdxCall(mode, i)

\* The program starts with the crate built: the expansion has ended and
\* `emitted` holds the items of the crate.
Init ==
    /\ features \in SUBSET FeatureNames
    /\ inv = Len(Invocations) + 1
    /\ phase = "item"
    /\ N = MAX(features)
    /\ left = Types(N)
    /\ pending = <<>>
    /\ I = N
    /\ emitted = crate(features)
    /\ IdleRun

Next == NextRun

Spec == Init /\ [][Next]_vars

\* The expansion ends in the states the programs start from.
ExpansionEndsInInit == Done => Init

(***************************************************************************)
(* Properties                                                              *)
(***************************************************************************)

\* The maximum arity the specification states for a set of features.
MaxArity(fs) ==
    IF "tuple_32" \in fs THEN 32 ELSE IF "tuple_24" \in fs THEN 24 ELSE 16

Called(op) == res # NoCall /\ res.op = op

\* The components `let (..) = self` yields for the local v under a mode.
Source(mode, v) == Destructure(mode, Arg(mode, v), locals)

Count(s, x) == Cardinality({k \in DOMAIN s : s[k] = x})

\* Every component of the sequences in `ins` is in `out` as often as it is in
\* the inputs together.
SameComponents(ins, out) ==
    \A j \in DOMAIN ins : \A x \in Range(ins[j]) :
        Count(out, x) = Count(ins[1], x) + Count(ins[2], x)

\* C1: a join of tuples of arities a and b with a+b <= MAX resolves, in
\* both borrow modes; its result has arity a+b, component I is the left
\* tuple's component I for I < a and the right tuple's component I-a
\* otherwise (the value when called by value, a reference to that field when
\* called by reference), and every input component is in the result exactly
\* as often as in the inputs.
C1_JoinOrder ==
    Called("join") =>
        LET A == Source(res.mode, "t")
            B == Source(res.mode, "u")
            a == Len(A)
            b == Len(B)
        IN  /\ a + b <= MaxArity(features) => res.ok
            /\ res.ok =>
                /\ Len(res.out) = a + b
                /\ \A i \in 1..Len(res.out) :
                     res.out[i] = IF i <= a THEN A[i] ELSE B[i - a]
                /\ SameComponents(<<A, B>>, res.out)

C1_Witness ==
    /\ Called("join")
    /\ res.ok
    /\ res.mode = "ref"
    /\ Len(locals.t.val) = 8
    /\ Len(locals.u.val) = 8
    /\ features = {}

\* C2: a split of a tuple of arity N <= MAX asked with a prefix of arity L
\* and a suffix of arity N-L resolves, in both borrow modes, and returns
\* the components 1..L in order as the prefix and L+1..N in order as the
\* suffix, so that every component is in exactly one of the two.
C2_SplitPartition ==
    Called("split") =>
        LET T == Source(res.mode, "t")
            n == Len(T)
        IN  /\ res.l + res.r = n /\ n <= MaxArity(features) => res.ok
            /\ res.ok =>
                /\ res.out[1] = SubSeq(T, 1, res.l)
                /\ res.out[2] = SubSeq(T, res.l + 1, n)
                /\ Len(res.out[1]) = res.l
                /\ Len(res.out[2]) = n - res.l
                /\ SameComponents(<<T, <<>> >>, res.out[1] \o res.out[2])

C2_Witness ==
    /\ Called("split")
    /\ res.ok
    /\ res.mode = "value"
    /\ ~locals.t.live
    /\ Len(locals.t.val) = 16
    /\ res.l = 5
    /\ res.r = 11

\* C3: after a split of T at any L, prefix.join(suffix) resolves and is T
\* again (for a split by reference: the references to T's fields in order).
C3_RoundTrip ==
    Called("rejoin") =>
        /\ res.ok
        /\ res.out = Source(res.of, "t")

C3_Witness ==
    /\ Called("rejoin")
    /\ res.ok
    /\ res.of = "value"
    /\ Len(locals.t.val) = 12
    /\ res.l = 7

\* C4: joining with the unit tuple on either side resolves for every tuple of
\* arity 0..MAX and gives the other tuple: its components when called by
\* value, references to exactly its fields when called by reference.
C4_UnitIdentity ==
    Called("join") =>
        LET A == Source(res.mode, "t")
            B == Source(res.mode, "u")
        IN  /\ Len(B) = 0 /\ Len(A) <= MaxArity(features) => res.ok /\ res.out = A
            /\ Len(A) = 0 /\ Len(B) <= MaxArity(features) => res.ok /\ res.out = B

C4_Witness ==
    /\ Called("join")
    /\ res.ok
    /\ Len(locals.u.val) = 0
    /\ Len(locals.t.val) = MaxArity(features)
    /\ res.out = locals.t.val

Key(im) == <<im.trait, im.mode, Len(im.left), Len(im.right), im.idx>>

Keys(items) == {Key(items[k]) : k \in DOMAIN items}

Operations(items) == SelectSeq(items, LAMBDA im : im.trait # "Sealed")

\* The implementations a crate of maximum arity m must hold.
Wanted(m) ==
    UNION {
        {<<trait, mode, l, n - l, NoIdx>> :
            trait \in {"TupleJoin", "TupleSplit"}, mode \in Modes, l \in 0..n}
        \cup
        {<<"TupleIdx", mode, n, 0, i>> : mode \in Modes, i \in 0..(n - 1)}
      : n \in 0..m }

Expanded == Done /\ rpc = "off"

\* C6: once the macros are expanded, under each set of features, every join
\* and split of every partition (L, R) with L+R <= MAX and every index I < N
\* for N <= MAX is there in both borrow modes, and no join, split or index
\* implementation is there twice.
C6_ExactlyOne ==
    Expanded =>
        LET ops == Operations(emitted)
        IN  /\ Wanted(MaxArity(features)) \subseteq Keys(ops)
            /\ Cardinality(Keys(ops)) = Len(ops)

C6_Witness ==
    /\ Expanded
    /\ features = {}
    /\ <<"TupleSplit", "ref", 16, 0, NoIdx>> \in Keys(emitted)
    /\ <<"TupleIdx", "value", 16, 0, 15>> \in Keys(emitted)

\* C7: no index implementation has I >= N, no join implementation has
\* L+R > MAX, and a call outside the range (an index I >= N, a join with
\* a+b > MAX, a split into shapes whose arities do not sum to the tuple's)
\* does not resolve: the build fails and no result is produced.
C7_NothingOutside ==
    /\ Expanded =>
        \A k \in DOMAIN emitted :
            LET im == emitted[k]
            IN  /\ im.trait = "TupleIdx" => 0 <= im.idx /\ im.idx < Len(im.left)
                /\ Len(im.left) + Len(im.right) <= MaxArity(features)
    /\ Called("idx") /\ res.i >= Len(locals.t.val) => ~res.ok /\ rpc = "error"
    /\ Called("join") /\ Len(locals.t.val) + Len(locals.u.val) > MaxArity(features)
            => ~res.ok /\ rpc = "error"
    /\ Called("split") /\ res.l + res.r # Len(locals.t.val)
            => ~res.ok /\ rpc = "error"

C7_Witness ==
    /\ Called("join")
    /\ ~res.ok
    /\ rpc = "error"
    /\ Len(locals.t.val) = 16
    /\ Len(locals.u.val) = 1
    /\ features = {}

\* C8: a call by reference leaves every local as it was, components and
\* ownership, so the tuples stay usable, and what it returns is made of
\* references to the fields of the tuples it borrowed.
C8_BorrowFrame ==
    [][ res' # NoCall /\ res'.mode = "ref" =>
          /\ locals' = locals
          /\ \A v \in DOMAIN locals' : locals'[v].live
          /\ res'.ok =>
               LET outs == IF res'.op = "join" THEN Range(res'.out)
                           ELSE IF res'.op = "split"
                                THEN Range(res'.out[1]) \cup Range(res'.out[2])
                                ELSE {res'.out}
               IN  \A p \in outs :
                     /\ p[1] \in DOMAIN locals
                     /\ p[2] \in DOMAIN locals[p[1]].val
      ]_vars

C8_Witness ==
    /\ Called("split")
    /\ res.mode = "ref"
    /\ res.ok
    /\ locals.t.live
    /\ Len(locals.t.val) = 32
    /\ res.l = 31

\* The partitions the recursion has emitted for the arity N being expanded.
PartitionsOfN ==
    SelectSeq(emitted,
              LAMBDA im : /\ im.trait = "TupleSplit"
                          /\ im.mode = "value"
                          /\ Len(im.left) + Len(im.right) = N)

\* C9: while impl_tupleops! recurs for an arity N, left and pending
\* concatenate to the N positions in order, one partition has been emitted
\* per position moved, in ascending order of L and each concatenating to the
\* N positions; a step is always possible until pending is empty, and once
\* the recursion has ended pending is empty and exactly N+1 partitions,
\* L = 0..N, have been emitted.
C9_Recursion ==
    rpc = "off" /\ phase \in {"recur", "idx"} =>
        LET P == PartitionsOfN
        IN  /\ left \o pending = Types(N)
            /\ \A j \in DOMAIN P :
                 /\ Len(P[j].left) = j - 1
                 /\ P[j].left \o P[j].right = Types(N)
            /\ phase = "recur" =>
                 /\ Len(P) = Len(left)
                 /\ ENABLED (RecurStep \/ RecurBase)
            /\ phase = "idx" =>
                 /\ pending = <<>>
                 /\ Len(P) = N + 1

C9_Witness ==
    /\ rpc = "off"
    /\ phase = "idx"
    /\ N = 16
    /\ pending = <<>>
    /\ Len(PartitionsOfN) = 17

\* The borrow mode and arity of the Self type of an item.
SelfShape(im) ==
    << im.mode,
       IF im.trait = "TupleSplit" THEN Len(im.left \o im.right) ELSE Len(im.left) >>

SealedShapes(items) ==
    SelectSeq(items, LAMBDA im : im.trait = "Sealed")

\* C10: once the macros are expanded, under each set of features, Sealed is
\* implemented exactly once for the tuple of each arity 0..MAX and exactly
\* once for the reference to it, and the Self type of every implementation
\* of TupleJoin, TupleSplit and TupleIdx is one of those shapes.
C10_Sealed ==
    Expanded =>
        LET seals == SealedShapes(emitted)
            shapes == {SelfShape(seals[k]) : k \in DOMAIN seals}
        IN  /\ shapes = Modes \X (0..MaxArity(features))
            /\ Cardinality(shapes) = Len(seals)
            /\ \A k \in DOMAIN emitted : SelfShape(emitted[k]) \in shapes

C10_Witness ==
    /\ Expanded
    /\ features = {}
    /\ \E k \in DOMAIN emitted :
         /\ emitted[k].trait = "TupleJoin"
         /\ emitted[k].mode = "ref"
         /\ Len(emitted[k].left) = 3
         /\ Len(emitted[k].right) = 13

====
